---- MODULE Spec2Model ----
(***************************************************************************)
(* A model of xmlschema/schema.py: the XsdGlobals registry (register,      *)
(* get_globals, iter_schemas, clear, copy, build), the XMLSchemaValidator  *)
(* constructor with its include / import / redefine recursion, and the     *)
(* iter_decode / to_dict entry points.                                     *)
(***************************************************************************)
EXTENDS Integers, Sequences, FiniteSets, TLC

VARIABLES
    reg,        \* registry id -> the fields of that XsdGlobals object
    lists,      \* list id -> a namespace's list of schemas (lists are objects:
                \* two registries may hold the same list)
    built,      \* the schema objects whose built flag is true
    bld,        \* the build() call under way: [r, i], r = 0 when there is none
    lastOp,     \* the registry operation performed last
    snap,       \* registry id -> its maps when clear() followed a successful build
    cp,         \* the last copy() and the registry operated on since
    calls,      \* the number of operations called so far
    META_SCHEMA,\* the class attribute: NoSchema until create_validator sets it
    boot,       \* create_validator's position
    stack,      \* the constructor calls under way, innermost last
    ctor,       \* what the constructor call that ended last did
    dec         \* an iter_decode generator and what its consumer has seen

regVars == <<reg, lists, built, bld, lastOp, snap, cp, calls>>
ctorVars == <<META_SCHEMA, boot, stack, ctor>>
vars == <<reg, lists, built, bld, lastOp, snap, cp, calls,
          META_SCHEMA, boot, stack, ctor, dec>>

\* The longest sequence of registry calls explored.
MaxCalls == 7
\* The most schemas a user constructs after create_validator.
MaxCtorCalls == 3
\* The most instance elements a path matches.
MaxElems == 2

\* The deepest nesting of constructor calls explored.
MaxDepth == 4

-----------------------------------------------------------------------------
(* The universe: registries, namespaces and schema documents.              *)

\* 1 is the registry the meta-schema creates, 2 any other registry
Registries == {1, 2}

NO_NAMESPACE == ""
XSD == "xsd"
XML == "xml"
URN_A == "urn:a"
Namespaces == {NO_NAMESPACE, XSD, XML, URN_A}
\* URIDict.values() order of the namespaces map
NsOrder == <<XSD, XML, URN_A, NO_NAMESPACE>>

NoUri == "None"
NoNamespace == "None"

\* The resources. mem1 and mem2 are in-memory sources (schema.uri is None).
\* A location that is not among them cannot be opened.
Docs == {"XMLSchema.xsd", "xml.xsd", "a.xsd", "b.xsd", "c.xsd", "n.xsd",
         "u.xsd", "w.xsd", "x.xsd", "p.xsd", "q.xsd", "mem1", "mem2"}

\* the uri load_xml_resource returns
DocUri(d) == IF d \in {"mem1", "mem2"} THEN NoUri ELSE d

\* the root's targetNamespace attribute ('' when absent)
DocTns(d) ==
    CASE d = "XMLSchema.xsd" -> XSD
      [] d \in {"xml.xsd", "x.xsd"} -> XML
      [] d \in {"b.xsd", "n.xsd", "q.xsd"} -> NO_NAMESPACE
      [] OTHER -> URN_A

\* the schemaLocation of each xs:include of the document
DocIncludes(d) ==
    CASE d = "a.xsd" -> <<"b.xsd">>
      [] d = "b.xsd" -> <<"a.xsd">>
      [] d = "u.xsd" -> <<"missing.xsd", "a.xsd">>
      [] d = "w.xsd" -> <<"u.xsd">>
      [] OTHER -> <<>>

\* the namespace and schemaLocation of each xs:import of the document
DocImports(d) ==
    CASE d = "XMLSchema.xsd" -> << [namespace |-> XML, location |-> "xml.xsd"] >>
      [] d = "c.xsd" -> << [namespace |-> XML, location |-> "xml.xsd"],
                           [namespace |-> NO_NAMESPACE, location |-> "n.xsd"] >>
      [] d = "p.xsd" -> << [namespace |-> NO_NAMESPACE, location |-> "q.xsd"] >>
      [] d = "q.xsd" -> << [namespace |-> NO_NAMESPACE, location |-> "p.xsd"] >>
      [] OTHER -> <<>>

\* the schemaLocation of each xs:redefine of the document
DocRedefines(d) ==
    CASE d \in {"c.xsd", "w.xsd"} -> <<"a.xsd">>
      [] OTHER -> <<>>

\* whether the document is valid against the meta-schema
DocValid(d) == d # "n.xsd"

\* The top-level declarations of a document: at most one per category. ref is
\* the name the declaration refers to (its type or base) as [ns, local], ns
\* being "tns" for the schema's own target namespace; parts are the local
\* element particles of a model group.
DocDecls(d) ==
    CASE d = "a.xsd" ->
           { [cat |-> "simpleType",     local |-> "st1", ref |-> <<XSD, "string">>, parts |-> {}],
             [cat |-> "attribute",      local |-> "a1",  ref |-> <<"tns", "st1">>,  parts |-> {}],
             [cat |-> "attributeGroup", local |-> "ag1", ref |-> <<"tns", "a1">>,   parts |-> {}],
             [cat |-> "complexType",    local |-> "t1",  ref |-> <<XSD, "string">>, parts |-> {}],
             [cat |-> "element",        local |-> "e1",  ref |-> <<"tns", "t1">>,   parts |-> {}],
             [cat |-> "group",          local |-> "g1",  ref |-> <<"tns", "t1">>,   parts |-> {"p1"}] }
      [] d = "mem1" ->
           { [cat |-> "element",        local |-> "e3",  ref |-> <<"tns", "t1">>,   parts |-> {}] }
      [] d = "mem2" ->
           { [cat |-> "element",        local |-> "e1",  ref |-> <<XSD, "string">>, parts |-> {}] }
      [] d = "b.xsd" ->
           { [cat |-> "element",        local |-> "b",   ref |-> <<XSD, "string">>, parts |-> {}] }
      [] d = "c.xsd" ->
           { [cat |-> "element",        local |-> "c",   ref |-> <<XSD, "string">>, parts |-> {}] }
      [] d = "n.xsd" ->
           { [cat |-> "element",        local |-> "n",   ref |-> <<XSD, "string">>, parts |-> {}] }
      [] d = "xml.xsd" ->
           { [cat |-> "attribute",      local |-> "lang", ref |-> <<XSD, "string">>, parts |-> {}] }
      [] OTHER ->
           { [cat |-> "complexType",    local |-> "openAttrs", ref |-> <<XSD, "string">>, parts |-> {}],
             [cat |-> "element",        local |-> "schema", ref |-> <<XSD, "openAttrs">>, parts |-> {}] }

PartNames == {"p1"}

\* A schema object is <<document, target namespace, instance>>: two objects
\* built from one resource differ in their instance.
NoSchema == <<"", "", 0>>
BUILTIN == <<"builtin", XSD, 0>>

\* schema.uri
UriOf(s) == DocUri(s[1])
\* schema.target_namespace
TnsOf(s) == s[2]
\* the declarations of schema.root
DeclsOf(s) == DocDecls(s[1])

\* The schema objects the registry operations are called with: two objects
\* loaded from a.xsd and two built from in-memory sources, all of urn:a.
Schemas == { <<"a.xsd", URN_A, 1>>, <<"a.xsd", URN_A, 2>>,
             <<"mem1", URN_A, 1>>, <<"mem2", URN_A, 1>> }

-----------------------------------------------------------------------------
(* Dictionaries, as functions with a finite domain.                        *)

EmptyMap == [k \in {} |-> NoSchema]

Put(m, k, v) == [x \in (DOMAIN m) \cup {k} |-> IF x = k THEN v ELSE m[x]]

\* dict.update(other)
Update(m, other) ==
    [x \in (DOMAIN m) \cup (DOMAIN other) |->
        IF x \in DOMAIN other THEN other[x] ELSE m[x]]

InSeq(x, q) == \E i \in 1..Len(q) : q[i] = x

SeqRange(q) == { q[i] : i \in 1..Len(q) }

\* get_namespace("{ns}local") and strip_uri("{ns}local"): a fully qualified
\* name is the pair <<ns, local>>.
get_namespace(k) == k[1]
strip_uri(k) == k[2]

\* validator.BUILTIN_TYPES
BUILTIN_TYPES ==
    [k \in {<<XSD, "string">>} |->
        [owner |-> BUILTIN, tag |-> "builtin", stage |-> "local"]]

MapNames == {"types", "attributes", "attribute_groups", "groups", "elements"}

-----------------------------------------------------------------------------
(* XsdGlobals                                                              *)

ListIds == 1..(Cardinality(Registries) * Cardinality(Namespaces))

\* XsdGlobals.__init__
NewGlobals ==
    [ namespaces       |-> EmptyMap,
      resources        |-> EmptyMap,
      types            |-> BUILTIN_TYPES,
      attributes       |-> EmptyMap,
      attribute_groups |-> EmptyMap,
      groups           |-> EmptyMap,
      elements         |-> EmptyMap,
      base_elements    |-> EmptyMap,
      view_cache       |-> EmptyMap ]

\* The list objects some registry still holds; the others are garbage.
Live(rg) == UNION { { rg[r].namespaces[n] : n \in DOMAIN rg[r].namespaces } :
                      r \in DOMAIN rg }

Gc(rg, ls) == [l \in DOMAIN ls |-> IF l \in Live(rg) THEN ls[l] ELSE <<>>]

FreshList(rg) == CHOOSE l \in ListIds \ Live(rg) :
                    \A m \in ListIds \ Live(rg) : l <= m

\* A heap is [reg, lists, built]: what an operation reads and writes.
Heap == [reg |-> reg, lists |-> lists, built |-> built]

\* register with the two membership tests of its last lines dropped: the schema
\* is appended to its namespace's list whenever the list exists
registerAlwaysAppend(h, r, s) ==
    LET R == h.reg[r]
        u == UriOf(s)
        n == TnsOf(s)
        conflict == u # NoUri /\ u \in DOMAIN R.resources /\ R.resources[u] # s
        h1 == IF u # NoUri /\ u \notin DOMAIN R.resources
              THEN [h EXCEPT !.reg[r].resources = Put(@, u, s)]
              ELSE h
    IN  IF conflict THEN h
        ELSE IF n \notin DOMAIN R.namespaces
        THEN LET f == FreshList(h.reg)
             IN [h1 EXCEPT !.reg[r].namespaces = Put(@, n, f), !.lists[f] = <<s>>]
        ELSE [h1 EXCEPT !.lists[R.namespaces[n]] = Append(@, s)]

\* XsdGlobals.register
register(h, r, s) ==
    LET R == h.reg[r]
        u == UriOf(s)
        n == TnsOf(s)
        conflict == u # NoUri /\ u \in DOMAIN R.resources /\ R.resources[u] # s
        h1 == IF u # NoUri /\ u \notin DOMAIN R.resources
              THEN [h EXCEPT !.reg[r].resources = Put(@, u, s)]
              ELSE h
    IN  IF conflict THEN h
        ELSE IF n \notin DOMAIN R.namespaces
        THEN LET f == FreshList(h.reg)
             IN [h1 EXCEPT !.reg[r].namespaces = Put(@, n, f), !.lists[f] = <<s>>]
        ELSE LET ns_schemas == h.lists[R.namespaces[n]]
             IN  IF InSeq(s, ns_schemas) THEN h1
                 ELSE IF ~ \E i \in 1..Len(ns_schemas) : UriOf(ns_schemas[i]) = u
                 THEN [h1 EXCEPT !.lists[R.namespaces[n]] = Append(@, s)]
                 ELSE h1

\* XsdGlobals.iter_schemas: the schemas of each namespace's list, in turn
RECURSIVE SchemasFrom(_, _, _)
SchemasFrom(R, ls, i) ==
    IF i > Len(NsOrder) THEN <<>>
    ELSE (IF NsOrder[i] \in DOMAIN R.namespaces
          THEN ls[R.namespaces[NsOrder[i]]] ELSE <<>>) \o SchemasFrom(R, ls, i + 1)

iter_schemas(h, r) == SchemasFrom(h.reg[r], h.lists, 1)

\* the dictionary comprehension of get_globals
Projection(m, namespace, fqn_keys) ==
    LET keys == { k \in DOMAIN m : get_namespace(k) = namespace }
    IN  IF fqn_keys
        THEN [k \in keys |-> m[k]]
        ELSE [x \in { strip_uri(k) : k \in keys } |->
                 m[CHOOSE k \in keys : strip_uri(k) = x]]

\* XsdGlobals.get_globals: [h, view], the heap it leaves and the map it returns
get_globals(h, r, map_name, namespace, fqn_keys) ==
    LET key == <<map_name, namespace, fqn_keys>>
        cache == h.reg[r].view_cache
    IN  IF key \in DOMAIN cache
        THEN [h |-> h, view |-> cache[key]]
        ELSE LET view == Projection(h.reg[r][map_name], namespace, fqn_keys)
             IN [h |-> [h EXCEPT !.reg[r].view_cache = Put(cache, key, view)],
                 view |-> view]

\* XsdGlobals.clear
clear(h, r, remove_schemas) ==
    LET h1 == [h EXCEPT !.reg[r].types = BUILTIN_TYPES,
                        !.reg[r].attributes = EmptyMap,
                        !.reg[r].attribute_groups = EmptyMap,
                        !.reg[r].groups = EmptyMap,
                        !.reg[r].elements = EmptyMap,
                        !.reg[r].base_elements = EmptyMap,
                        !.reg[r].view_cache = EmptyMap,
                        !.built = @ \ SeqRange(iter_schemas(h, r))]
        h2 == IF remove_schemas
              THEN [h1 EXCEPT !.reg[r].namespaces = EmptyMap,
                              !.reg[r].resources = EmptyMap]
              ELSE h1
    IN  [h2 EXCEPT !.lists = Gc(h2.reg, h2.lists)]

\* XsdGlobals.copy: the heap with registry dst bound to src.copy()
copy(h, src, dst) ==
    LET S == h.reg[src]
        h1 == [h EXCEPT !.reg[dst] =
                  [NewGlobals EXCEPT !.namespaces = S.namespaces,
                                     !.resources = S.resources,
                                     !.types = Update(BUILTIN_TYPES, S.types),
                                     !.attributes = S.attributes,
                                     !.attribute_groups = S.attribute_groups,
                                     !.groups = S.groups,
                                     !.elements = S.elements,
                                     !.base_elements = S.base_elements]]
    IN  [h1 EXCEPT !.lists = Gc(h1.reg, h1.lists)]

-----------------------------------------------------------------------------
(* XsdGlobals.build: the load_xsd_* and build_xsd_* passes of xsdbase.     *)

MapOf(cat) ==
    CASE cat \in {"simpleType", "complexType"} -> "types"
      [] cat = "attribute" -> "attributes"
      [] cat = "attributeGroup" -> "attribute_groups"
      [] cat = "element" -> "elements"
      [] OTHER -> "groups"

\* the map a declaration's reference is looked up in
RefMapOf(cat) == IF cat = "attributeGroup" THEN "attributes" ELSE "types"

DeclOf(s, cat, local) == CHOOSE d \in DeclsOf(s) : d.cat = cat /\ d.local = local

\* the FQN a declaration of schema s refers to
RefOf(s, d) == IF d.ref[1] = "tns" THEN <<TnsOf(s), d.ref[2]>> ELSE d.ref

\* load_xsd_<category>(map, schemas): the raw declarations of every schema not
\* yet built go into the map under their FQN; a name already there is a
\* collision (ParseError). [ok, map]
RECURSIVE load_xsd_globals(_, _, _, _, _)
load_xsd_globals(m, q, i, cat, bl) ==
    IF i > Len(q) THEN [ok |-> TRUE, map |-> m]
    ELSE IF q[i] \in bl THEN load_xsd_globals(m, q, i + 1, cat, bl)
    ELSE LET keys == { <<TnsOf(q[i]), d.local>> :
                         d \in { e \in DeclsOf(q[i]) : e.cat = cat } }
         IN  IF keys \cap DOMAIN m # {}
             THEN [ok |-> FALSE, map |-> m]
             ELSE load_xsd_globals(
                      Update(m, [k \in keys |->
                                   [owner |-> q[i], tag |-> cat, stage |-> "raw"]]),
                      q, i + 1, cat, bl)

\* build_xsd_<category>(map, tag): every raw entry of the category is compiled;
\* a reference to a name that is not loaded is a ParseError. [ok, map]
build_xsd_globals(R, cat) ==
    LET m == R[MapOf(cat)]
        raw == { k \in DOMAIN m : m[k].tag = cat /\ m[k].stage = "raw" }
        unresolved == { k \in raw :
                          RefOf(m[k].owner, DeclOf(m[k].owner, cat, k[2]))
                              \notin DOMAIN R[RefMapOf(cat)] }
    IN  IF unresolved # {}
        THEN [ok |-> FALSE, map |-> m]
        ELSE [ok |-> TRUE,
              map |-> [k \in DOMAIN m |->
                         IF k \in raw THEN [m[k] EXCEPT !.stage = "global"] ELSE m[k]]]

\* build_xsd_<category>(map, tag, parse_local_groups=True): the local
\* declarations of every compiled entry of the category are compiled in place
build_xsd_locals(R, cat) ==
    LET m == R[MapOf(cat)]
    IN  [k \in DOMAIN m |->
           IF m[k].tag = cat /\ m[k].stage = "global"
           THEN [m[k] EXCEPT !.stage = "local"] ELSE m[k]]

\* {e.name: e for e in group.iter_elements()}, over every global group
GroupElements(R) ==
    LET m == R.groups
        found == { kp \in (DOMAIN m) \X PartNames :
                     kp[2] \in DeclOf(m[kp[1]].owner, "group", kp[1][2]).parts }
    IN  [x \in { <<kp[1][1], kp[2]>> : kp \in found } |->
           [owner |-> m[(CHOOSE kp \in found : <<kp[1][1], kp[2]>> = x)[1]].owner,
            tag |-> "element", stage |-> "local"]]

\* build() marking the schemas built before it updates base_elements
BuildStepsMarkEarly ==
    << [kind |-> "load",   cat |-> "simpleType"],
       [kind |-> "build",  cat |-> "simpleType"],
       [kind |-> "load",   cat |-> "attribute"],
       [kind |-> "build",  cat |-> "attribute"],
       [kind |-> "load",   cat |-> "attributeGroup"],
       [kind |-> "build",  cat |-> "attributeGroup"],
       [kind |-> "load",   cat |-> "complexType"],
       [kind |-> "build",  cat |-> "complexType"],
       [kind |-> "load",   cat |-> "element"],
       [kind |-> "build",  cat |-> "element"],
       [kind |-> "load",   cat |-> "group"],
       [kind |-> "build",  cat |-> "group"],
       [kind |-> "local",  cat |-> "group"],
       [kind |-> "local",  cat |-> "complexType"],
       [kind |-> "local",  cat |-> "element"],
       [kind |-> "mark",   cat |-> ""],
       [kind |-> "base",   cat |-> ""] >>

BuildStepsLocalsEarly ==
    << [kind |-> "load",   cat |-> "simpleType"],
       [kind |-> "build",  cat |-> "simpleType"],
       [kind |-> "load",   cat |-> "attribute"],
       [kind |-> "build",  cat |-> "attribute"],
       [kind |-> "load",   cat |-> "attributeGroup"],
       [kind |-> "build",  cat |-> "attributeGroup"],
       [kind |-> "load",   cat |-> "complexType"],
       [kind |-> "build",  cat |-> "complexType"],
       [kind |-> "local",  cat |-> "complexType"],
       [kind |-> "load",   cat |-> "element"],
       [kind |-> "build",  cat |-> "element"],
       [kind |-> "local",  cat |-> "element"],
       [kind |-> "load",   cat |-> "group"],
       [kind |-> "build",  cat |-> "group"],
       [kind |-> "local",  cat |-> "group"],
       [kind |-> "base",   cat |-> ""],
       [kind |-> "mark",   cat |-> ""] >>

\* The statements of build(), in order.
BuildSteps ==
    << [kind |-> "load",   cat |-> "simpleType"],
       [kind |-> "build",  cat |-> "simpleType"],
       [kind |-> "load",   cat |-> "attribute"],
       [kind |-> "build",  cat |-> "attribute"],
       [kind |-> "load",   cat |-> "attributeGroup"],
       [kind |-> "build",  cat |-> "attributeGroup"],
       [kind |-> "load",   cat |-> "complexType"],
       [kind |-> "build",  cat |-> "complexType"],
       [kind |-> "load",   cat |-> "element"],
       [kind |-> "build",  cat |-> "element"],
       [kind |-> "load",   cat |-> "group"],
       [kind |-> "build",  cat |-> "group"],
       [kind |-> "local",  cat |-> "group"],
       [kind |-> "local",  cat |-> "complexType"],
       [kind |-> "local",  cat |-> "element"],
       [kind |-> "base",   cat |-> ""],
       [kind |-> "mark",   cat |-> ""] >>

update_base_elementsFromGroups(R) == Update(R.base_elements, GroupElements(R))

\* base_elements.update(elements), then the elements of each group
update_base_elements(R) ==
    Update(Update(R.base_elements, R.elements), GroupElements(R))

\* One statement of build() on registry r: [ok, h]
build_step(h, r, st) ==
    LET R == h.reg[r]
    IN  CASE st.kind = "load" ->
               LET res == load_xsd_globals(R[MapOf(st.cat)], iter_schemas(h, r),
                                           1, st.cat, h.built)
               IN [ok |-> res.ok, h |-> [h EXCEPT !.reg[r][MapOf(st.cat)] = res.map]]
          [] st.kind = "build" ->
               LET res == build_xsd_globals(R, st.cat)
               IN [ok |-> res.ok, h |-> [h EXCEPT !.reg[r][MapOf(st.cat)] = res.map]]
          [] st.kind = "local" ->
               [ok |-> TRUE,
                h |-> [h EXCEPT !.reg[r][MapOf(st.cat)] = build_xsd_locals(R, st.cat)]]
          [] st.kind = "base" ->
               [ok |-> TRUE,
                h |-> [h EXCEPT !.reg[r].base_elements = update_base_elements(R)]]
          [] OTHER ->
               [ok |-> TRUE,
                h |-> [h EXCEPT !.built = @ \cup SeqRange(iter_schemas(h, r))]]

raisesNever(res) == FALSE

\* the statement raised: the exception leaves build()
raises(res) == ~ res.ok

\* build() on registry r from its statement i on: [ok, h, i], whether it
\* returned, the heap it leaves and the statement it ended at
RECURSIVE build_from(_, _, _)
build_from(h, r, i) ==
    LET res == build_step(h, r, BuildSteps[i])
    IN  IF raises(res) THEN [ok |-> FALSE, h |-> res.h, i |-> i]
        ELSE IF i = Len(BuildSteps) THEN [ok |-> TRUE, h |-> res.h, i |-> i]
        ELSE build_from(res.h, r, i + 1)

\* XsdGlobals.build
build(h, r) == build_from(h, r, 1)

-----------------------------------------------------------------------------
(* The registry operations as actions.                                     *)

Idle == bld.r = 0

Called ==
    /\ calls < MaxCalls
    /\ calls' = calls + 1

NoCopy == [src |-> 0, dst |-> 0, actor |-> 0]

\* An operation on registry r: the copy is followed while every operation
\* since it is on the same one of its two registries.
Since(r) ==
    cp' = IF cp.src # 0 /\ r \in {cp.src, cp.dst} /\ cp.actor \in {0, r}
          THEN [cp EXCEPT !.actor = r]
          ELSE NoCopy

NoSnap == [has |-> FALSE, maps |-> EmptyMap]

NoOp == [op |-> "init", r |-> 0, s |-> NoSchema, arg |-> "", again |-> FALSE,
         namespace |-> "None", tick |-> FALSE]

\* the five global maps and base_elements of a registry
GlobalMaps(R) ==
    [n \in MapNames \cup {"base_elements"} |-> R[n]]

Install(h) ==
    /\ reg' = h.reg
    /\ lists' = h.lists
    /\ built' = h.built

Register(r, s) ==
    /\ Idle
    /\ Called
    /\ Install(register(Heap, r, s))
    /\ lastOp' = [NoOp EXCEPT !.op = "register", !.r = r, !.s = s,
                    !.again = (lastOp.op = "register" /\ lastOp.r = r /\ lastOp.s = s)]
    /\ snap' = [x \in Registries |-> NoSnap]
    /\ Since(r)
    /\ UNCHANGED <<bld, ctorVars, dec>>

Clear(r, remove_schemas) ==
    /\ Idle
    /\ Called
    /\ Install(clear(Heap, r, remove_schemas))
    /\ lastOp' = [NoOp EXCEPT !.op = "clear", !.r = r,
                    !.arg = IF remove_schemas THEN "remove_schemas" ELSE ""]
    /\ snap' = [x \in Registries |->
                  IF x = r /\ ~ remove_schemas
                     /\ lastOp.op = "build" /\ lastOp.r = r /\ lastOp.arg = "returned"
                  THEN [has |-> TRUE, maps |-> GlobalMaps(reg[r])]
                  ELSE NoSnap]
    /\ Since(r)
    /\ UNCHANGED <<bld, ctorVars, dec>>

Copy(src, dst) ==
    /\ Idle
    /\ Called
    /\ src # dst
    /\ Install(copy(Heap, src, dst))
    /\ lastOp' = [NoOp EXCEPT !.op = "copy", !.r = dst]
    /\ snap' = [x \in Registries |-> NoSnap]
    /\ cp' = [src |-> src, dst |-> dst, actor |-> 0]
    /\ UNCHANGED <<bld, ctorVars, dec>>

GetGlobals(r, map_name, namespace, fqn_keys) ==
    /\ Idle
    /\ Called
    /\ Install(get_globals(Heap, r, map_name, namespace, fqn_keys).h)
    /\ lastOp' = [NoOp EXCEPT !.op = "get_globals", !.r = r, !.arg = map_name]
    /\ snap' = [x \in Registries |-> NoSnap]
    /\ UNCHANGED <<bld, cp, ctorVars, dec>>

Build(r) ==
    /\ Idle
    /\ Called
    /\ LET res == build(Heap, r)
       IN  /\ Install(res.h)
           /\ lastOp' = [NoOp EXCEPT !.op = "build", !.r = r,
                           !.arg = IF res.ok THEN "returned" ELSE "raised"]
    /\ snap' = [x \in Registries |-> IF x = r THEN snap[x] ELSE NoSnap]
    /\ Since(r)
    /\ UNCHANGED <<bld, ctorVars, dec>>

\* build() on registry r, one statement at a time; nothing else runs meanwhile
BuildStatement(r) ==
    /\ bld.r \in {0, r}
    /\ IF bld.r = 0 THEN Called ELSE UNCHANGED calls
    /\ LET i == IF bld.r = 0 THEN 1 ELSE bld.i
           res == build_step(Heap, r, BuildSteps[i])
           done == raises(res) \/ i = Len(BuildSteps)
       IN  /\ Install(res.h)
           /\ bld' = IF done THEN [r |-> 0, i |-> 0] ELSE [r |-> r, i |-> i + 1]
           /\ lastOp' = [NoOp EXCEPT !.op = "build", !.r = r,
                           !.arg = IF ~ res.ok THEN "raised"
                                   ELSE IF done THEN "returned" ELSE "running"]
    /\ snap' = [x \in Registries |-> IF x = r THEN snap[x] ELSE NoSnap]
    /\ Since(r)
    /\ UNCHANGED <<ctorVars, dec>>

NoCtor == [op |-> "none", s |-> NoSchema, namespace |-> "None",
           global_maps |-> 0, meta |-> FALSE, done |-> <<>>,
           kind |-> "", error |-> "", origin |-> "", frames |-> <<>>,
           tick |-> FALSE]

\* no decoding call made yet
NoDec == [op |-> "none", state |-> "none", root_ok |-> FALSE, elems |-> <<>>,
          path |-> "None", skip_errors |-> FALSE, pos |-> 0, out |-> <<>>,
          ret |-> "none"]

Init ==
    /\ reg = [r \in Registries |-> NewGlobals]
    /\ lists = [l \in ListIds |-> <<>>]
    /\ built = {}
    /\ bld = [r |-> 0, i |-> 0]
    /\ lastOp = NoOp
    /\ snap = [r \in Registries |-> NoSnap]
    /\ cp = NoCopy
    /\ calls = 0
    /\ META_SCHEMA = NoSchema
    /\ boot = "start"
    /\ stack = <<>>
    /\ ctor = NoCtor
    /\ dec = NoDec

Next ==
    \/ \E r \in Registries, s \in Schemas : Register(r, s)
    \/ \E r \in Registries, b \in BOOLEAN : Clear(r, b)
    \/ \E r \in Registries, d \in Registries : Copy(r, d)
    \/ \E r \in Registries : Build(r)

Spec == Init /\ [][Next]_vars

\* The registry with its projection cache in use.
NextCache ==
    \/ \E s \in Schemas : Register(1, s)
    \/ \E b \in BOOLEAN : Clear(1, b)
    \/ Build(1)
    \/ \E m \in {"types", "elements"}, n \in {XSD, URN_A}, f \in BOOLEAN :
          GetGlobals(1, m, n, f)

SpecCache == Init /\ [][NextCache]_vars

\* build() observed statement by statement.
NextBuild ==
    \/ \E r \in Registries, s \in Schemas : Register(r, s)
    \/ \E r \in Registries, b \in BOOLEAN : Clear(r, b)
    \/ \E r \in Registries, d \in Registries : Copy(r, d)
    \/ \E r \in Registries : BuildStatement(r)

SpecBuild == Init /\ [][NextBuild]_vars

-----------------------------------------------------------------------------
(* XMLSchemaValidator.__init__ and create_validator.                       *)
(* A constructor call is a frame: the schema object, its arguments, the    *)
(* registry it uses, whether META_SCHEMA was set, the statement it is at   *)
(* (k into its statements, i into the include / import / redefine elements *)
(* of that statement) and the log of what it has done.                     *)

\* the registry of the meta-schema, and the one a user's schema obtains
MetaMaps == CHOOSE r \in Registries : \A x \in Registries : r <= x
UserMaps == CHOOSE r \in Registries : r # MetaMaps

\* the documents a user constructs a schema from
UserDocs == {"a.xsd", "b.xsd", "c.xsd", "n.xsd", "u.xsd", "w.xsd", "x.xsd",
             "p.xsd"}

NoFrame == [s |-> NoSchema, namespace |-> NoNamespace, check_schema |-> FALSE,
            global_maps |-> 0, maps |-> 0, meta |-> FALSE, k |-> 0, i |-> 0,
            done |-> <<>>, before |-> [namespaces |-> EmptyMap,
                                       resources |-> EmptyMap]]

\* the constructor with the build() call moved ahead of the subschemas
CtorStepsBuildFirst(meta) ==
    IF meta THEN <<"build", "include", "import", "redefine", "check">>
    ELSE <<"include", "redefine">>

\* The statements of __init__ that follow maps.register(self), by whether
\* META_SCHEMA is set.
CtorSteps(meta) ==
    IF meta THEN <<"include", "import", "redefine", "check", "build">>
    ELSE <<"include", "redefine">>

\* whether the statement self.maps.build() is reached with this global_maps
BuildsMaps(global_maps) == global_maps = 0

\* the schema objects something still refers to
RefObjs(h, stk, meta) ==
    UNION { SeqRange(iter_schemas(h, r))
              \cup { h.reg[r].resources[u] : u \in DOMAIN h.reg[r].resources } :
            r \in Registries }
      \cup { stk[j].s : j \in 1..Len(stk) } \cup {meta}

\* a new schema object of document d: the first instance nothing refers to
NewSchema(d, tns, used) ==
    <<d, tns, CHOOSE k \in 1..(Cardinality(used) + 1) :
                 /\ <<d, tns, k>> \notin used
                 /\ \A j \in 1..(k - 1) : <<d, tns, j>> \in used>>

\* self.target_namespace once the expected namespace is taken into account
target_namespaceDeclared(d, namespace) == DocTns(d)

target_namespace(d, namespace) ==
    IF namespace # NoNamespace /\ DocTns(d) # namespace /\ DocTns(d) = ""
    THEN namespace ELSE DocTns(d)

\* the namespace map, with the list of schemas held under each namespace
NamespaceMap(rg, ls, r) ==
    [n \in DOMAIN rg[r].namespaces |-> ls[rg[r].namespaces[n]]]

\* the namespace and resource maps of the registry a constructor is given, as
\* it is called (empty when it is given none)
RegisteredBefore(h, global_maps) ==
    IF global_maps = 0 THEN [namespaces |-> EmptyMap, resources |-> EmptyMap]
    ELSE [namespaces |-> NamespaceMap(h.reg, h.lists, global_maps),
          resources |-> h.reg[global_maps].resources]

\* __init__ up to maps.register(self): [ok, h, frame]; not ok is the
\* ParseError for a wrong namespace. global_maps is 0 for None. The built
\* flags of objects nothing refers to any more are dropped.
ctor_begin(h, stk, meta, d, namespace, check_schema, global_maps) ==
    LET declared == DocTns(d)
        differs == namespace # NoNamespace /\ declared # namespace
        tns == target_namespace(d, namespace)
        r == IF global_maps # 0 THEN global_maps
             ELSE IF meta = NoSchema THEN MetaMaps ELSE UserMaps
        h1 == IF global_maps # 0 THEN h
              ELSE IF meta = NoSchema
              THEN LET n == [h EXCEPT !.reg[r] = NewGlobals]
                   IN [n EXCEPT !.lists = Gc(n.reg, n.lists)]
              ELSE LET c == copy(h, MetaMaps, r)
                   IN  IF tns \in DOMAIN c.reg[r].namespaces
                       THEN clear(c, r, FALSE) ELSE c
        used == RefObjs(h1, stk, meta)
        s == NewSchema(d, tns, used)
        h2 == [h1 EXCEPT !.built = @ \cap used]
    IN  IF differs /\ declared # NO_NAMESPACE
        THEN [ok |-> FALSE, h |-> h, frame |-> NoFrame]
        ELSE [ok |-> TRUE, h |-> register(h2, r, s),
              frame |-> [s |-> s, namespace |-> namespace,
                         check_schema |-> check_schema,
                         global_maps |-> global_maps, maps |-> r,
                         meta |-> meta # NoSchema, k |-> 1, i |-> 1,
                         done |-> <<"register">>,
                         before |-> RegisteredBefore(h, global_maps)]]

Top == stack[Len(stack)]

Stmt == IF stack # <<>> /\ Top.k <= Len(CtorSteps(Top.meta))
        THEN CtorSteps(Top.meta)[Top.k] ELSE "return"

\* the constructor call that ended: what it was called with and what it did
Ended(op, f) == [op |-> op, s |-> f.s, namespace |-> f.namespace,
                 global_maps |-> f.global_maps, meta |-> f.meta, done |-> f.done,
                 kind |-> "", error |-> "", origin |-> "", frames |-> <<>>,
                 tick |-> ~ ctor.tick]

except_clauseAsParseError(kind) == "ParseError"

\* The kind of the exception that leaves the try statement around
\* create_schema when the subschema's constructor raised one of this kind: a
\* kind the except clause names (XMLSchemaURLError being an OSError) is
\* raised anew as type(err)(...), any other passes.
except_clause(kind) ==
    IF kind \in {"ParseError", "TypeError", "OSError", "URLError"} THEN kind
    ELSE kind

\* the kind of an exception once it has left n enclosing create_schema calls
RECURSIVE Propagated(_, _)
Propagated(kind, n) ==
    IF n = 0 THEN kind ELSE Propagated(except_clause(kind), n - 1)

\* An exception of this kind, raised at origin inside the given number of
\* create_schema calls, leaves every constructor call under way; what the
\* calls did to the registry stays. During create_validator it ends the
\* bootstrap.
Raise(h, kind, origin, calls_inside) ==
    /\ Install(h)
    /\ stack' = <<>>
    /\ ctor' = [Ended("raised", stack[1]) EXCEPT !.kind = kind,
                   !.error = Propagated(kind, calls_inside),
                   !.origin = origin, !.frames = stack]
    /\ boot' = IF boot = "ready" THEN boot ELSE "failed"
    /\ UNCHANGED META_SCHEMA

\* the statement is complete: on to the next one
Advance(h, f) ==
    /\ Install(h)
    /\ stack' = [stack EXCEPT ![Len(stack)] =
                    [f EXCEPT !.k = @ + 1, !.i = 1, !.done = Append(@, Stmt)]]
    /\ UNCHANGED <<META_SCHEMA, boot, ctor>>

\* on to the next element of the statement
Skip ==
    /\ stack' = [stack EXCEPT ![Len(stack)].i = @ + 1]
    /\ UNCHANGED <<reg, lists, built, META_SCHEMA, boot, ctor>>

\* the latest constructor call: the document, the expected namespace and the
\* registry it was given (0 for None); tick changes with every call
Began(d, namespace, global_maps) ==
    lastOp' = [NoOp EXCEPT !.op = "XMLSchema", !.arg = d, !.r = global_maps,
                 !.namespace = namespace, !.tick = ~ lastOp.tick]

\* create_schema(schema_uri, namespace, check_schema, self.maps)
CreateSchema(d, namespace, check_schema) ==
    LET res == ctor_begin(Heap, stack, META_SCHEMA, d, namespace, check_schema,
                          Top.maps)
    IN  /\ Len(stack) < MaxDepth
        /\ Began(d, namespace, Top.maps)
        /\ IF res.ok
           THEN /\ Install(res.h)
                /\ stack' = Append([stack EXCEPT ![Len(stack)].i = @ + 1],
                                   res.frame)
                /\ UNCHANGED <<META_SCHEMA, boot, ctor>>
           ELSE Raise(Heap, "ParseError", "wrong namespace", Len(stack))

\* include_schemas and redefine_schemas: one xs:include / xs:redefine element
IncludeOrRedefine(locations, check_schema) ==
    IF Top.i > Len(locations) THEN Advance(Heap, Top) /\ UNCHANGED lastOp
    ELSE LET location == locations[Top.i]
         IN  IF location \notin Docs
             THEN Raise(Heap, "URLError", "open_resource", Len(stack) - 1) /\ UNCHANGED lastOp
             ELSE IF DocUri(location) \in DOMAIN reg[Top.maps].resources
             THEN Skip /\ UNCHANGED lastOp
             ELSE CreateSchema(location, TnsOf(Top.s), check_schema)

CtorInclude ==
    /\ Stmt = "include"
    /\ IncludeOrRedefine(DocIncludes(Top.s[1]), Top.meta /\ Top.check_schema)
    /\ UNCHANGED <<bld, snap, cp, calls, dec>>

CtorRedefine ==
    /\ Stmt = "redefine"
    /\ IncludeOrRedefine(DocRedefines(Top.s[1]), Top.check_schema)
    /\ UNCHANGED <<bld, snap, cp, calls, dec>>

\* import_schemas: one xs:import element
CtorImport ==
    /\ Stmt = "import"
    /\ LET imports == DocImports(Top.s[1])
       IN  IF Top.i > Len(imports) THEN Advance(Heap, Top) /\ UNCHANGED lastOp
           ELSE LET elem == imports[Top.i]
                IN  IF elem.namespace \in DOMAIN reg[Top.maps].namespaces
                    THEN Skip /\ UNCHANGED lastOp
                    ELSE IF elem.location = "" THEN Skip /\ UNCHANGED lastOp
                    ELSE IF elem.location \notin Docs
                         THEN /\ Raise(Heap, "URLError", "open_resource", Len(stack) - 1)
                              /\ UNCHANGED lastOp
                    ELSE CreateSchema(elem.location,
                                      IF elem.namespace # "" THEN elem.namespace
                                      ELSE TnsOf(Top.s),
                                      Top.check_schema)
    /\ UNCHANGED <<bld, snap, cp, calls, dec>>

\* if check_schema: self.check_schema(self.root)
CtorCheck ==
    /\ Stmt = "check"
    /\ IF Top.check_schema /\ ~ DocValid(Top.s[1])
       THEN Raise(Heap, "ValidationError", "check_schema", Len(stack) - 1)
       ELSE Advance(Heap, Top)
    /\ UNCHANGED <<bld, lastOp, snap, cp, calls, dec>>

\* if global_maps is None: self.maps.build()
CtorBuild ==
    /\ Stmt = "build"
    /\ IF BuildsMaps(Top.global_maps)
       THEN LET res == build(Heap, Top.maps)
            IN  IF res.ok THEN Advance(res.h, Top)
                ELSE Raise(res.h, "ParseError", "build", Len(stack) - 1)
       ELSE /\ stack' = [stack EXCEPT ![Len(stack)].k = @ + 1]
            /\ UNCHANGED <<reg, lists, built, META_SCHEMA, boot, ctor>>
    /\ UNCHANGED <<bld, lastOp, snap, cp, calls, dec>>

\* __init__ returns; its caller, if a constructor, has a subschema more
CtorReturn ==
    /\ stack # <<>>
    /\ Stmt = "return"
    /\ ctor' = Ended("returned", Top)
    /\ stack' = LET rest == SubSeq(stack, 1, Len(stack) - 1)
                IN  IF rest = <<>> THEN rest
                    ELSE [rest EXCEPT ![Len(rest)].done = Append(@, "sub")]
    /\ UNCHANGED <<regVars, META_SCHEMA, boot, dec>>

\* a constructor call from outside any constructor
Construct(d, namespace, check_schema, global_maps) ==
    /\ stack = <<>>
    /\ Began(d, namespace, global_maps)
    /\ LET res == ctor_begin(Heap, stack, META_SCHEMA, d, namespace,
                             check_schema, global_maps)
       IN  IF res.ok
           THEN Install(res.h) /\ stack' = <<res.frame>> /\ ctor' = ctor
           ELSE /\ Install(Heap)
                /\ stack' = <<>>
                /\ ctor' = [Ended("raised", NoFrame) EXCEPT
                               !.namespace = namespace, !.global_maps = global_maps,
                               !.kind = "ParseError", !.error = "ParseError",
                               !.origin = "wrong namespace"]
    /\ UNCHANGED <<bld, snap, cp, META_SCHEMA, dec>>

\* create_validator: meta_schema = XMLSchemaValidator(meta_schema)
BootMeta ==
    /\ boot = "start"
    /\ Construct("XMLSchema.xsd", NoNamespace, FALSE, 0)
    /\ boot' = "meta"
    /\ UNCHANGED calls

\* create_validator: XMLSchemaValidator(v, global_maps=meta_schema.maps)
BootBase ==
    /\ boot = "meta"
    /\ Construct("xml.xsd", NoNamespace, FALSE, MetaMaps)
    /\ boot' = "base"
    /\ UNCHANGED calls

\* create_validator: META_SCHEMA = meta_schema; meta_schema.maps.build()
BootBuild ==
    /\ boot = "base"
    /\ stack = <<>>
    /\ META_SCHEMA' = reg[MetaMaps].resources["XMLSchema.xsd"]
    /\ LET res == build(Heap, MetaMaps)
       IN  Install(res.h) /\ boot' = IF res.ok THEN "ready" ELSE "failed"
    /\ UNCHANGED <<bld, lastOp, snap, cp, calls, stack, ctor, dec>>

\* a user constructs a schema, with or without the registry of an earlier one
UserConstruct(d, namespace, check_schema, global_maps) ==
    /\ boot = "ready"
    /\ calls < MaxCtorCalls
    /\ calls' = calls + 1
    /\ global_maps # 0 => DOMAIN reg[global_maps].namespaces # {}
    /\ Construct(d, namespace, check_schema, global_maps)
    /\ UNCHANGED boot

NextCtor ==
    \/ BootMeta
    \/ BootBase
    \/ BootBuild
    \/ \E d \in UserDocs, n \in {NoNamespace, URN_A}, c \in BOOLEAN,
          g \in {0, UserMaps} : UserConstruct(d, n, c, g)
    \/ CtorInclude
    \/ CtorImport
    \/ CtorRedefine
    \/ CtorCheck
    \/ CtorBuild
    \/ CtorReturn

SpecCtor == Init /\ [][NextCtor]_vars

-----------------------------------------------------------------------------
(* iter_decode, iter_errors and to_dict.                                   *)
(* An instance document is what the decoding sees of it: whether its root  *)
(* tag is a global element of the schema, and the elements the decoding    *)
(* visits (the root without a path, the elements the path matches with     *)
(* one), each given by the chunks its decoding yields when no error stops  *)
(* it. A path is None, or resolves to an element declaration or not.       *)

NoPath == "None"
Paths == {NoPath, "found", "not found"}

\* what decoding one instance element yields in full: "error" is an
\* XMLSchemaValidationError, "decode error" an XMLSchemaDecodeError
ElemChunks == { <<"value">>, <<"error", "value">>, <<"error">>,
                <<"decode error", "error", "value">> }

\* isinstance(chunk, (XMLSchemaDecodeError, XMLSchemaValidationError))
IsError(chunk) == chunk \in {"error", "decode error"}

SeqsUpTo(S, n) == UNION { [1..k -> S] : k \in 0..n }

\* XsdElement.iter_decode(elem, ..., skip_errors): with skip_errors the
\* errors are yielded inline, without it the iteration ends with the first
XsdElement_iter_decode(chunks, skip_errors) ==
    LET errs == { j \in 1..Len(chunks) : IsError(chunks[j]) }
    IN  IF skip_errors \/ errs = {} THEN chunks
        ELSE SubSeq(chunks, 1, CHOOSE j \in errs : \A x \in errs : j <= x)

\* the for loop over the elements: each element's chunks in turn
RECURSIVE decode_each(_, _, _)
decode_each(elems, j, skip_errors) ==
    IF j > Len(elems) THEN <<>>
    ELSE XsdElement_iter_decode(elems[j], skip_errors)
            \o decode_each(elems, j + 1, skip_errors)

\* whether self.find(...) returns an XsdElement
IsAnchored(root_ok, path) == IF path = NoPath THEN root_ok ELSE path = "found"

\* XMLSchemaValidator.iter_decode, as everything the generator does when it
\* is advanced to its end: the chunks it yields and how it ends, "stop" for
\* StopIteration and "AttributeError" for the iter_decode attribute looked
\* up on None
iter_decode(root_ok, elems, path, skip_errors) ==
    IF IsAnchored(root_ok, path)
    THEN [out |-> decode_each(elems, 1, skip_errors), end |-> "stop"]
    ELSE [out |-> <<"error">>,
          end |-> IF elems = <<>> THEN "stop" ELSE "AttributeError"]

\* raise chunk
Raised(chunk) == IF chunk = "error" THEN "raise error" ELSE "raise decode error"

\* iter_errors yielding the errors of a decoding that stops at the first one
iter_errorsNoSkip(root_ok, elems, path) ==
    LET g == iter_decode(root_ok, elems, path, FALSE)
    IN  [out |-> SelectSeq(g.out, IsError), end |-> g.end]

\* XMLSchemaValidator.iter_errors, advanced to its end
iter_errors(root_ok, elems, path) ==
    LET g == iter_decode(root_ok, elems, path, TRUE)
    IN  [out |-> SelectSeq(g.out, IsError), end |-> g.end]

\* XMLSchemaValidator.to_dict: what the call does
to_dict(root_ok, elems, path, skip_errors) ==
    LET g == iter_decode(root_ok, elems, path, skip_errors)
    IN  IF g.out # <<>>
        THEN IF IsError(g.out[1]) THEN Raised(g.out[1]) ELSE "return value"
        ELSE IF g.end = "stop" THEN "return None" ELSE "raise AttributeError"

\* XMLSchemaValidator.validate: what the call does
validate(root_ok, elems) ==
    LET g == iter_errors(root_ok, elems, NoPath)
    IN  IF g.out # <<>> THEN Raised(g.out[1])
        ELSE IF g.end = "stop" THEN "return None" ELSE "raise AttributeError"

\* XMLSchemaValidator.is_valid: what the call does
is_valid(root_ok, elems) ==
    LET g == iter_errors(root_ok, elems, NoPath)
    IN  IF g.out # <<>> THEN "return False"
        ELSE IF g.end = "stop" THEN "return True" ELSE "raise AttributeError"

\* the elements a call visits: the root alone without a path
Visited(path) ==
    IF path = NoPath THEN [1..1 -> ElemChunks] ELSE SeqsUpTo(ElemChunks, MaxElems)

DecIdle == dec.state \in {"none", "stopped", "raised", "done"}

\* g = schema.iter_decode(doc, path, skip_errors=...)
IterDecode(root_ok, elems, path, skip_errors) ==
    /\ DecIdle
    /\ dec' = [NoDec EXCEPT !.op = "iter_decode", !.state = "running",
                 !.root_ok = root_ok, !.elems = elems, !.path = path,
                 !.skip_errors = skip_errors]
    /\ UNCHANGED <<regVars, ctorVars>>

\* next(g)
AdvanceDecode ==
    /\ dec.op = "iter_decode"
    /\ dec.state = "running"
    /\ LET g == iter_decode(dec.root_ok, dec.elems, dec.path, dec.skip_errors)
       IN  dec' = IF dec.pos < Len(g.out)
                  THEN [dec EXCEPT !.pos = @ + 1, !.out = Append(@, g.out[dec.pos + 1])]
                  ELSE [dec EXCEPT !.state = IF g.end = "stop" THEN "stopped"
                                             ELSE "raised"]
    /\ UNCHANGED <<regVars, ctorVars>>

\* list(schema.iter_errors(doc, path))
IterErrors(root_ok, elems, path) ==
    /\ DecIdle
    /\ LET g == iter_errors(root_ok, elems, path)
       IN  dec' = [NoDec EXCEPT !.op = "iter_errors",
                     !.state = IF g.end = "stop" THEN "stopped" ELSE "raised",
                     !.root_ok = root_ok, !.elems = elems, !.path = path,
                     !.skip_errors = TRUE, !.pos = Len(g.out), !.out = g.out]
    /\ UNCHANGED <<regVars, ctorVars>>

\* schema.to_dict(doc, path, skip_errors=...)
ToDict(root_ok, elems, path, skip_errors) ==
    /\ DecIdle
    /\ dec' = [NoDec EXCEPT !.op = "to_dict", !.state = "done",
                 !.root_ok = root_ok, !.elems = elems, !.path = path,
                 !.skip_errors = skip_errors,
                 !.ret = to_dict(root_ok, elems, path, skip_errors)]
    /\ UNCHANGED <<regVars, ctorVars>>

\* schema.validate(doc)
Validate(root_ok, elems) ==
    /\ DecIdle
    /\ dec' = [NoDec EXCEPT !.op = "validate", !.state = "done",
                 !.root_ok = root_ok, !.elems = elems, !.skip_errors = TRUE,
                 !.ret = validate(root_ok, elems)]
    /\ UNCHANGED <<regVars, ctorVars>>

\* schema.is_valid(doc)
IsValid(root_ok, elems) ==
    /\ DecIdle
    /\ dec' = [NoDec EXCEPT !.op = "is_valid", !.state = "done",
                 !.root_ok = root_ok, !.elems = elems, !.skip_errors = TRUE,
                 !.ret = is_valid(root_ok, elems)]
    /\ UNCHANGED <<regVars, ctorVars>>

NextDecode ==
    \/ \E k \in BOOLEAN, p \in Paths, s \in BOOLEAN : \E e \in Visited(p) :
          IterDecode(k, e, p, s)
    \/ AdvanceDecode
    \/ \E k \in BOOLEAN, p \in Paths : \E e \in Visited(p) : IterErrors(k, e, p)
    \/ \E k \in BOOLEAN, p \in Paths, s \in BOOLEAN : \E e \in Visited(p) :
          ToDict(k, e, p, s)
    \/ \E k \in BOOLEAN : \E e \in Visited(NoPath) : Validate(k, e)
    \/ \E k \in BOOLEAN : \E e \in Visited(NoPath) : IsValid(k, e)

SpecDecode == Init /\ [][NextDecode]_vars

-----------------------------------------------------------------------------
(* What a caller can observe of a registry.                                *)

\* the namespace map, the resource map, the five global maps and base_elements
Observable(rg, ls, r) ==
    [namespaces |-> NamespaceMap(rg, ls, r),
     resources  |-> rg[r].resources,
     maps       |-> GlobalMaps(rg[r])]

\* the schemas a registry records: in a namespace's list or under a resource URI
Registered(r) ==
    SeqRange(iter_schemas(Heap, r))
        \cup { reg[r].resources[u] : u \in DOMAIN reg[r].resources }

-----------------------------------------------------------------------------
(* C1. Cache coherence: every projection get_globals returns equals a      *)
(* fresh recomputation from the current global map, also after build().    *)
C1_CacheCoherent ==
    \A r \in Registries : \A m \in MapNames, n \in Namespaces, f \in BOOLEAN :
        get_globals(Heap, r, m, n, f).view = Projection(reg[r][m], n, f)

(* C2. Copy independence: after C = R.copy(), the operations called on one *)
(* of the two registries leave the other's namespace map (with its lists), *)
(* resource map, global maps and base_elements unchanged.                  *)
C2_CopyIndependent ==
    [][ \A r \in Registries :
          (cp'.actor # 0 /\ r \in {cp'.src, cp'.dst} /\ r # cp'.actor)
             => Observable(reg', lists', r) = Observable(reg, lists, r) ]_vars

(* C3. Idempotent registration: a register(S) call that follows a          *)
(* register(S) call on the same registry changes nothing.                  *)
C3_RegisterIdempotent ==
    [][ (lastOp'.op = "register" /\ lastOp'.again)
          => (reg' = reg /\ lists' = lists /\ built' = built) ]_vars

\* a schema registered twice in a row into a list that held another schema
C3_Witness ==
    /\ lastOp.op = "register"
    /\ lastOp.again
    /\ LET q == iter_schemas(Heap, lastOp.r)
       IN  InSeq(lastOp.s, q) /\ Len(q) >= 2

(* C4. Clear post-state: after clear() types holds exactly the builtins,   *)
(* the other maps, base_elements and the cache are empty, every schema     *)
(* registered before the call has built = false; the namespace and         *)
(* resource maps are unchanged, or both empty with remove_schemas = true.  *)
C4_ClearPostState ==
    [][ lastOp'.op = "clear" =>
          LET r == lastOp'.r
              R == reg'[r]
          IN  /\ R.types = BUILTIN_TYPES
              /\ \A m \in {"attributes", "attribute_groups", "groups",
                           "elements", "base_elements", "view_cache"} :
                    DOMAIN R[m] = {}
              /\ \A s \in Registered(r) : s \notin built'
              /\ lastOp'.arg = "" =>
                    /\ NamespaceMap(reg', lists', r) = NamespaceMap(reg, lists, r)
                    /\ R.resources = reg[r].resources
              /\ lastOp'.arg = "remove_schemas" =>
                    /\ DOMAIN R.namespaces = {}
                    /\ DOMAIN R.resources = {} ]_vars

(* C5. Clear round-trip: clear() after a successful build(), followed by   *)
(* build(), gives back the global maps and base_elements of before the     *)
(* clear, and every registered schema is built again.                      *)
C5_ClearRoundTrip ==
    (lastOp.op = "build" /\ lastOp.arg = "returned" /\ snap[lastOp.r].has)
        => /\ GlobalMaps(reg[lastOp.r]) = snap[lastOp.r].maps
           /\ SeqRange(iter_schemas(Heap, lastOp.r)) \subseteq built

(* C6. Build finalization: a built flag turns true only in the last        *)
(* statement of build(), when every load and build pass of Phase A, every  *)
(* pass of Phase B and the base_elements update have completed; when       *)
(* build() returns, every schema iter_schemas() yields is built.           *)
C6_BuiltAfterPipeline ==
    [][ /\ (built' \ built # {}) =>
              /\ bld.r # 0
              /\ BuildSteps[bld.i].kind = "mark"
              /\ { BuildSteps[j] : j \in 1..(bld.i - 1) } =
                    { st \in SeqRange(BuildSteps) : st.kind # "mark" }
        /\ (lastOp'.op = "build" /\ lastOp'.arg = "returned") =>
              SeqRange(iter_schemas(Heap', lastOp'.r)) \subseteq built' ]_vars

\* build() has returned and has built a schema of the registry
C6_Witness ==
    /\ lastOp.op = "build"
    /\ lastOp.arg = "returned"
    /\ bld.r = 0
    /\ SeqRange(iter_schemas(Heap, lastOp.r)) \cap built # {}

(* C7. Build trigger, as claimed: a constructor that returns has invoked   *)
(* build() if and only if no registry was passed to it, exactly once,      *)
(* after its registration and after all its subschemas; a constructor      *)
(* given a registry has not invoked it.                                    *)
C7_BuildIffNoRegistry ==
    ctor.op = "returned" =>
        LET builds == { p \in 1..Len(ctor.done) : ctor.done[p] = "build" }
        IN  /\ (builds # {}) <=> (ctor.global_maps = 0)
            /\ Cardinality(builds) <= 1
            /\ \A p \in builds :
                  /\ \E q \in 1..(p - 1) : ctor.done[q] = "register"
                  /\ \A q \in (p + 1)..Len(ctor.done) :
                        ctor.done[q] \notin {"register", "include", "import",
                                             "redefine", "sub"}

(* C7, amended. A constructor that returns has invoked build() if and only *)
(* if no registry was passed to it and META_SCHEMA was set: exactly once,  *)
(* after its registration and after all its include, import and redefine   *)
(* subschemas were constructed. A constructor given a registry, and the    *)
(* meta-schema's constructor in create_validator, have not invoked it.     *)
C7_BuildIffNoRegistryAndMeta ==
    ctor.op = "returned" =>
        LET builds == { p \in 1..Len(ctor.done) : ctor.done[p] = "build" }
        IN  /\ (builds # {}) <=> (ctor.global_maps = 0 /\ ctor.meta)
            /\ Cardinality(builds) <= 1
            /\ \A p \in builds :
                  /\ \E q \in 1..(p - 1) : ctor.done[q] = "register"
                  /\ \A q \in (p + 1)..Len(ctor.done) :
                        ctor.done[q] \notin {"register", "include", "import",
                                             "redefine", "sub"}

\* a constructor given no registry has built it after two subschemas of its
\* own, which did not build
C7_Witness ==
    /\ ctor.op = "returned"
    /\ ctor.global_maps = 0
    /\ ctor.meta
    /\ Cardinality({ p \in 1..Len(ctor.done) : ctor.done[p] = "sub" }) = 2
    /\ ctor.done[Len(ctor.done)] = "build"
    /\ stack = <<>>

(* C8. Unanchored document: when the root tag (path=None) or the path does *)
(* not resolve to an element declaration, iter_decode yields exactly one   *)
(* error and then ends normally, as does iter_errors.                      *)
C8_UnanchoredEndsNormally ==
    (/\ dec.op \in {"iter_decode", "iter_errors"}
     /\ ~ IsAnchored(dec.root_ok, dec.path))
        => /\ dec.state # "raised"
           /\ Len(dec.out) <= 1
           /\ dec.state = "stopped" => dec.out = <<"error">>

(* C9. Stop on first error: with skip_errors=false iter_decode yields      *)
(* nothing after an error, also when the path matches several elements;    *)
(* with skip_errors=true it goes through every matched element.            *)
C9_StopOnFirstError ==
    dec.op = "iter_decode" =>
        /\ ~ dec.skip_errors =>
              \A j \in 1..(Len(dec.out) - 1) : ~ IsError(dec.out[j])
        /\ (dec.skip_errors /\ dec.state = "stopped"
              /\ IsAnchored(dec.root_ok, dec.path)) =>
              dec.out = decode_each(dec.elems, 1, TRUE)

(* C10. to_dict returns the first decoded value, and raises whenever       *)
(* iter_decode yields an error for the document: it returns neither a      *)
(* value nor None when the decoding produces an error.                     *)
C10_ToDictRaisesOnAnyError ==
    dec.op = "to_dict" =>
        LET g == iter_decode(dec.root_ok, dec.elems, dec.path, dec.skip_errors)
            values == SelectSeq(g.out, LAMBDA c : c = "value")
        IN  IF \E j \in 1..Len(g.out) : IsError(g.out[j])
            THEN dec.ret \in {"raise error", "raise decode error",
                              "raise AttributeError"}
            ELSE values # <<>> => dec.ret = "return value"

(* C11. Validation entry points agree: is_valid(doc) is true iff           *)
(* iter_errors(doc) yields no error iff validate(doc) returns normally;    *)
(* validate raises the first error iter_errors yields; iter_errors yields  *)
(* exactly the error chunks of iter_decode(skip_errors=true), in order,    *)
(* and no decoded value.                                                   *)
C11_EntryPointsAgree ==
    LET errors == iter_errors(dec.root_ok, dec.elems, dec.path)
        chunks == iter_decode(dec.root_ok, dec.elems, dec.path, TRUE)
    IN  /\ dec.op = "validate" =>
              /\ (dec.ret = "return None") <=> (errors.out = <<>>)
              /\ (dec.ret = "return None")
                    <=> (is_valid(dec.root_ok, dec.elems) = "return True")
              /\ errors.out # <<>> => dec.ret = Raised(errors.out[1])
        /\ dec.op = "is_valid" =>
              /\ (dec.ret = "return True") <=> (errors.out = <<>>)
              /\ (dec.ret = "return False") <=> (errors.out # <<>>)
        /\ dec.op = "iter_errors" =>
              /\ dec.out = SelectSeq(chunks.out, IsError)
              /\ \A j \in 1..Len(dec.out) : dec.out[j] # "value"
              /\ (dec.state = "raised") <=> (chunks.end # "stop")

\* validate has raised the first of the two errors of a document
C11_Witness ==
    /\ dec.op = "validate"
    /\ dec.ret = "raise decode error"
    /\ iter_errors(dec.root_ok, dec.elems, NoPath).out = <<"decode error", "error">>

\* a step in which a constructor is called
BeginStep == lastOp'.tick # lastOp.tick

\* the schemas in the list of namespace n of a registry
ListOf(rg, ls, r, n) ==
    IF n \in DOMAIN rg[r].namespaces THEN SeqRange(ls[rg[r].namespaces[n]])
    ELSE {}

\* the call that began ends at once with a ParseError for a wrong namespace
WrongNamespace ==
    /\ stack' = <<>>
    /\ ctor'.op = "raised"
    /\ ctor'.error = "ParseError"
    /\ ctor'.origin = "wrong namespace"

HeldByOther(rg, r, s) ==
    /\ UriOf(s) # NoUri
    /\ UriOf(s) \in DOMAIN rg[r].resources
    /\ rg[r].resources[UriOf(s)] # s

\* schema objects of the documents with a URI, of any target namespace
SchemasOfAnyNamespace ==
    { <<d, n, k>> : d \in {"a.xsd", "b.xsd"}, n \in Namespaces, k \in 1..2 }

(* C13. Same-URI conflict: register(S2) while a different schema S1 is      *)
(* registered under S2's URI leaves the registry entirely unchanged,        *)
(* whatever S2's target namespace: in every state for every such S2, and    *)
(* in every register call made.                                             *)
C13_ConflictLeavesRegistry ==
    /\ [] (\A r \in Registries : \A s \in SchemasOfAnyNamespace :
              HeldByOther(reg, r, s) => register(Heap, r, s) = Heap)
    /\ [][ lastOp'.op = "register" /\ HeldByOther(reg, lastOp'.r, lastOp'.s)
             => /\ reg' = reg /\ lists' = lists /\ built' = built
                /\ reg'[lastOp'.r].resources[UriOf(lastOp'.s)] # lastOp'.s
                /\ lastOp'.s \notin SeqRange(iter_schemas(Heap, lastOp'.r)) ]_vars

\* the constructor call that just ended raised while a subschema was being
\* resolved (open_resource) or constructed (a create_schema call)
SubschemaFailed(c) ==
    /\ c.op = "raised"
    /\ c.frames # <<>>
    /\ c.origin \in {"open_resource", "wrong namespace"} \/ Len(c.frames) > 1

(* C14. Subschema failure propagation: when resolving or constructing an    *)
(* included, imported or redefined subschema fails, every enclosing         *)
(* constructor ends with an error of the kind first raised, none of them    *)
(* processes a further include, import or redefine, and none has invoked    *)
(* or invokes build().                                                      *)
C14_FailurePropagates ==
    [][ ctor'.tick # ctor.tick /\ SubschemaFailed(ctor') =>
          /\ ctor'.error = ctor'.kind
          /\ ctor'.frames = stack
          /\ stack' = <<>>
          /\ \A j \in 1..Len(stack) :
                \A q \in 1..Len(stack[j].done) : stack[j].done[q] # "build"
          /\ ctor'.origin # "build"
      ]_vars

\* an include of a location that cannot be opened, two constructors deep,
\* ended both of them with a URLError before the remaining include and
\* redefine elements were looked at
C14_Witness ==
    /\ SubschemaFailed(ctor)
    /\ stack = <<>>
    /\ ctor.kind = "URLError"
    /\ ctor.error = "URLError"
    /\ Len(ctor.frames) = 2
    /\ ctor.frames[1].s[1] = "w.xsd"
    /\ ctor.frames[1].done = <<"register">>
    /\ ctor.frames[2].s[1] = "u.xsd"
    /\ ctor.frames[2].i = 1
    /\ ctor.frames[1].global_maps = 0

\* a step of a user's constructor call that was passed no registry: the call
\* itself or a statement of it or of its subschemas
UserStepWithoutRegistry ==
    /\ boot = "ready"
    /\ \/ stack # <<>> /\ stack[1].global_maps = 0
       \/ stack = <<>> /\ BeginStep /\ lastOp'.r = 0

(* C15. Meta-schema documents stay built: no step of the construction of a  *)
(* user schema that was passed no registry changes the built flag of a      *)
(* schema registered in the meta-schema's registry, and each of them is     *)
(* built before and after the step.                                         *)
C15_MetaStaysBuilt ==
    [][ UserStepWithoutRegistry =>
          \A s \in Registered(MetaMaps) : s \in built /\ s \in built' ]_vars

\* the categories of Phase A and of Phase B in the order claimed
PhaseA == <<"simpleType", "attribute", "attributeGroup", "complexType",
            "element", "group">>

PhaseB == <<"group", "complexType", "element">>

\* the statement of build() that a step of it executes
Statement == BuildSteps[IF bld.r = 0 THEN 1 ELSE bld.i]

\* the statements of build() executed before the step
Executed == SubSeq(BuildSteps, 1, (IF bld.r = 0 THEN 1 ELSE bld.i) - 1)

(* C16. Pipeline order: every load, build and local statement that build()  *)
(* executes comes in the claimed place: the Phase A categories in order,    *)
(* each category's load statement immediately before its build statement,   *)
(* and the three Phase B statements, in their order, only after all twelve  *)
(* Phase A statements.                                                      *)
C16_PipelineOrder ==
    [][ lastOp'.op = "build" =>
          LET n == Len(Executed)
          IN  /\ Statement.kind = "load" =>
                    /\ n % 2 = 0 /\ n < 2 * Len(PhaseA)
                    /\ Statement.cat = PhaseA[n \div 2 + 1]
              /\ Statement.kind = "build" =>
                    /\ n % 2 = 1 /\ n < 2 * Len(PhaseA)
                    /\ Executed[n] = [kind |-> "load", cat |-> Statement.cat]
              /\ Statement.kind = "local" =>
                    /\ n >= 2 * Len(PhaseA) /\ n < 2 * Len(PhaseA) + Len(PhaseB)
                    /\ Statement.cat = PhaseB[n - 2 * Len(PhaseA) + 1]
                    /\ \A k \in 1..Len(PhaseA) :
                          /\ Executed[2 * k - 1] = [kind |-> "load", cat |-> PhaseA[k]]
                          /\ Executed[2 * k] = [kind |-> "build", cat |-> PhaseA[k]]
              /\ Statement.kind \in {"base", "mark"} =>
                    n >= 2 * Len(PhaseA) + Len(PhaseB)
      ]_vars

\* build() has executed Phase A on a registry with element declarations and
\* is inside Phase B
C16_Witness ==
    /\ bld.r # 0
    /\ Statement = [kind |-> "local", cat |-> "element"]
    /\ DOMAIN reg[bld.r].elements # {}
    /\ DOMAIN reg[bld.r].groups # {}

\* every key of elements is a key of base_elements, with the same declaration
BaseCoversElements(R) ==
    \A k \in DOMAIN R.elements :
        k \in DOMAIN R.base_elements /\ R.base_elements[k] = R.elements[k]

C18_BuildAborts ==
    [][ lastOp'.op = "build" =>
          LET r == lastOp'.r
          IN  /\ \A m \in MapNames : DOMAIN reg[r][m] \subseteq DOMAIN reg'[r][m]
              /\ Statement.kind # "base" =>
                    reg'[r].base_elements = reg[r].base_elements
              /\ Statement.kind # "mark" => built' = built
              /\ lastOp'.arg = "raised" =>
                    /\ Statement.kind \in {"load", "build", "local"}
                    /\ \A j \in 1..Len(Executed) :
                          Executed[j].kind \in {"load", "build", "local"}
                    /\ bld'.r = 0
      ]_vars

\* a build aborted after statements that wrote simple types and elements:
\* they are in the maps, base_elements is empty and no schema is built
C18_Witness ==
    /\ lastOp.op = "build"
    /\ lastOp.arg = "raised"
    /\ bld.r = 0
    /\ DOMAIN reg[lastOp.r].elements # {}
    /\ DOMAIN reg[lastOp.r].types # DOMAIN BUILTIN_TYPES
    /\ DOMAIN reg[lastOp.r].base_elements = {}
    /\ SeqRange(iter_schemas(Heap, lastOp.r)) \cap built = {}

\* a step in which import_schemas calls create_schema for an xs:import
ImportStep == BeginStep /\ stack # <<>> /\ Stmt = "import"

(* C19. Import namespace: a schema constructed for an xs:import is          *)
(* constructed with the namespace of the import's namespace attribute (the  *)
(* empty namespace when it is absent or empty) and, once its constructor    *)
(* has registered it, is in that namespace's list and, unless the import    *)
(* names the importing schema's target namespace, not in the list of that   *)
(* namespace.                                                               *)
C19_ImportNamespace ==
    [][ ImportStep =>
          LET elem == DocImports(Top.s[1])[Top.i]
              f == stack'[Len(stack')]
          IN  /\ lastOp'.arg = elem.location
              /\ lastOp'.namespace = elem.namespace
              /\ Len(stack') = Len(stack) + 1 =>
                    /\ f.s \in ListOf(reg', lists', f.maps, elem.namespace)
                    /\ elem.namespace # TnsOf(Top.s) =>
                          f.s \notin ListOf(reg', lists', f.maps, TnsOf(Top.s))
      ]_vars

(* C20. Construction terminates: no document is constructed again inside    *)
(* its own construction into the same registry, so the nesting of           *)
(* constructor calls is bounded by the number of documents and each         *)
(* resource URI is constructed at most once per registry.                   *)
C20_NoReentry ==
    \A i, j \in 1..Len(stack) :
        i < j => ~ (/\ UriOf(stack[i].s) = UriOf(stack[j].s)
                    /\ stack[i].maps = stack[j].maps)

\* how many times iter_schemas() of registry r yields schema s
Yields(h, r, s) ==
    LET q == iter_schemas(h, r)
    IN  Cardinality({ i \in 1..Len(q) : q[i] = s })

(* C21. Registered schemas are iterated: after register(S) returns, unless  *)
(* a different schema was registered under S's URI, iter_schemas() yields   *)
(* S exactly once, also when S has no URI and its namespace already holds   *)
(* another schema with no URI.                                              *)
C21_RegisteredIsIterated ==
    [][ lastOp'.op = "register" /\ ~ HeldByOther(reg, lastOp'.r, lastOp'.s)
          => Yields(Heap', lastOp'.r, lastOp'.s) = 1 ]_vars

(* C22. Failed construction leaves a shared registry unchanged: when a      *)
(* constructor that was given a registry fails, at once for a wrong         *)
(* namespace or later in an include, import, redefine or check_schema, the  *)
(* registry's namespace map (with its lists) and resource map are what      *)
(* they were when that constructor was called.                              *)
C22_FailureLeavesRegistry ==
    [][ ctor'.tick # ctor.tick /\ ctor'.op = "raised" =>
          /\ (BeginStep /\ lastOp'.r # 0) =>
                RegisteredBefore(Heap', lastOp'.r) = RegisteredBefore(Heap, lastOp'.r)
          /\ \A j \in 1..Len(stack) :
                stack[j].global_maps # 0 =>
                   RegisteredBefore(Heap', stack[j].global_maps) = stack[j].before
      ]_vars

====
